---- MODULE Spec2Model ----
(***************************************************************************)
(* A model of machine.go: the machine registry, the peer resolver, the     *)
(* staleness detector, the expiry policy and the route authority of the    *)
(* coordination server.  The backing store is the only shared state; every *)
(* handler is one action that works on a Machine struct loaded from it.    *)
(***************************************************************************)
EXTENDS Integers, Naturals, Sequences, FiniteSets, TLC

VARIABLES machines, shared, now, cfg, lastStateChange, ret, pc

vars == <<machines, shared, now, cfg, lastStateChange, ret, pc>>

(***************************************************************************)
(* Bounds of the model.                                                    *)
(***************************************************************************)
NumMachines == 2
NumNamespaces == 2
MaxTime == 3
MaxDuration == 2
MaxRoutes == 2

MachineIDs == 1..NumMachines
NamespaceIDs == 1..NumNamespaces

\* A nil *time.Time; the zero time.Time (time.Time{}) is 0 and real instants are >= 1.
NilTime == 0 - 1
ZeroTime == 0

(***************************************************************************)
(* Keys: wgkey.ParseHex accepts hex digits of either case, HexString       *)
(* prints lower case.  val = 0 is a string that is not a key.              *)
(***************************************************************************)
KeyStrs == [val : 0..(NumMachines + 1), upper : BOOLEAN]

ParseHexOK(s) == s.val # 0

ParseHex(s) == s.val

HexString(k) == [val |-> k, upper |-> FALSE]

(***************************************************************************)
(* Routes: netaddr.ParseIPPrefix and IPPrefix.String (used by json.Marshal *)
(* through MarshalText).  Two spellings of one IPv6 prefix parse to the    *)
(* same value; the host bits of an IPv4 prefix are kept as written.        *)
(***************************************************************************)
RouteStrs == {"10.0.0.0/24", "10.1.0.0/16", "fd00::/64", "fd00:0::/64", "bogus"}

ParseIPPrefixOK(s) == s # "bogus"

ParseIPPrefix(s) ==
  CASE s = "10.0.0.0/24" -> [ip |-> "10.0.0.0", bits |-> 24]
    [] s = "10.1.0.0/16" -> [ip |-> "10.1.0.0", bits |-> 16]
    [] s = "fd00::/64" -> [ip |-> "fd00::", bits |-> 64]
    [] s = "fd00:0::/64" -> [ip |-> "fd00::", bits |-> 64]
    [] OTHER -> [ip |-> "", bits |-> 0]

PrefixString(p) ==
  CASE p.bits = 24 -> "10.0.0.0/24"
    [] p.bits = 16 -> "10.1.0.0/16"
    [] p.bits = 64 -> "fd00::/64"
    [] OTHER -> "invalid IP prefix"

RouteArgs == UNION {[1..n -> RouteStrs] : n \in 0..MaxRoutes}

\* The routable subnets a machine reports in its host metadata.
HostInfoOf(id) ==
  IF id = 1
    THEN [valid |-> TRUE,
          RoutableIPs |-> {ParseIPPrefix("10.0.0.0/24"), ParseIPPrefix("fd00::/64")}]
    ELSE IF id = 2
      THEN [valid |-> TRUE, RoutableIPs |-> {ParseIPPrefix("10.1.0.0/16")}]
      ELSE [valid |-> FALSE, RoutableIPs |-> {}]

(***************************************************************************)
(* The Machine struct.  ZeroMachine is Machine{}.                          *)
(***************************************************************************)
ZeroMachine ==
  [ID |-> 0, MachineKey |-> [val |-> 0, upper |-> FALSE], IPAddress |-> 0,
   NamespaceID |-> 0, Registered |-> FALSE, RegisterMethod |-> "",
   LastSuccessfulUpdate |-> NilTime, Expiry |-> NilTime,
   RequestedExpiry |-> NilTime,
   HostInfo |-> [valid |-> TRUE, RoutableIPs |-> {}],
   EnabledRoutes |-> <<>>]

\* A machine record as the registration handshake leaves it: known, not registered.
NewMachine(id) ==
  [ZeroMachine EXCEPT !.ID = id, !.MachineKey = HexString(id),
                      !.HostInfo = HostInfoOf(id)]

\* A machine record registered in namespace ns with address ip.
RegisteredMachine(id, ns, ip) ==
  [NewMachine(id) EXCEPT !.NamespaceID = ns, !.IPAddress = ip,
                         !.Registered = TRUE, !.RegisterMethod = "authKey",
                         !.LastSuccessfulUpdate = 1, !.Expiry = MaxTime + 1,
                         !.RequestedExpiry = ZeroTime]

(***************************************************************************)
(* The backing store: machines maps the ID of every row to its Machine,    *)
(* shared is the set of SharedMachine rows <<namespace, machine>>.         *)
(***************************************************************************)
Rows == {machines[i] : i \in DOMAIN machines}

\* h.db.Save: writes the whole struct under its primary key.
Save(m) == [i \in (DOMAIN machines) \cup {m.ID} |-> IF i = m.ID THEN m ELSE machines[i]]

\* h.db.Delete: the row is no longer returned by any query.
Delete(store, id) == [i \in (DOMAIN store) \ {id} |-> store[i]]

\* sort.Slice(ms, func(i, j) { return ms[i].ID < ms[j].ID }), as an insertion sort.
RECURSIVE InsertByID(_, _)
InsertByID(m, s) ==
  IF s = <<>> THEN <<m>>
  ELSE IF m.ID < Head(s).ID THEN <<m>> \o s
  ELSE <<Head(s)>> \o InsertByID(m, Tail(s))

RECURSIVE SortByID(_)
SortByID(s) == IF s = <<>> THEN <<>> ELSE InsertByID(Head(s), SortByID(Tail(s)))

\* The rows of a query, in some order the store returns them (here: by ID).
RECURSIVE SeqOfRows(_)
SeqOfRows(S) ==
  IF S = {} THEN <<>>
  ELSE LET m == CHOOSE x \in S : \A y \in S : x.ID <= y.ID
       IN <<m>> \o SeqOfRows(S \ {m})

(***************************************************************************)
(* Collaborators of machine.go that live in other files of the repository. *)
(***************************************************************************)
\* GetNamespace: the tenant lookup; a name that is no tenant is NotFound.
GetNamespaceOK(namespace) == namespace \in NamespaceIDs

\* ListMachinesInNamespace: the whole roster of a tenant, registered or not.
ListMachinesInNamespace(ns) == SeqOfRows({x \in Rows : x.NamespaceID = ns})

\* getAvailableIP: the first address of the pool that no machine row holds.
\* The configured prefix holds two addresses, so that the pool can run out.
IPs == 1..2

UsedIPs == {x.IPAddress : x \in Rows}

getAvailableIPOK == IPs \ UsedIPs # {}

getAvailableIP == CHOOSE ip \in IPs \ UsedIPs : \A other \in IPs \ UsedIPs : ip <= other

\* RemoveSharedMachineFromAllNamespaces: revokes every share of the machine.
RemoveSharedMachineFromAllNamespaces(id) == {s \in shared : s[2] # id}

\* RequestMapUpdates: the signal to the notifier that the peers of a tenant
\* must refresh; it fails for an unknown tenant or when the store fails.  The
\* calls a handler made are recorded in the sig field of ret.
RequestMapUpdatesOK(ns, fault) == ns \in NamespaceIDs /\ fault # "notify"

\* getLastStateChange: the most recent change recorded over a set of tenants.
getLastStateChange(nss) ==
  LET times == {lastStateChange[n] : n \in nss \cap DOMAIN lastStateChange}
  IN IF times = {} THEN now
     ELSE CHOOSE t \in times : \A u \in times : u <= t

(***************************************************************************)
(* Peer resolver.                                                          *)
(***************************************************************************)
\* getDirectPeers without the machine_key <> ? clause.
getDirectPeersWithSelf(m) ==
  SortByID(SeqOfRows({x \in Rows : x.NamespaceID = m.NamespaceID /\ x.Registered}))

getDirectPeers(m) ==
  SortByID(SeqOfRows({x \in Rows : /\ x.NamespaceID = m.NamespaceID
                                   /\ x.MachineKey # m.MachineKey
                                   /\ x.Registered}))

\* The Machine a SharedMachine row preloads.
SharedMachineOf(s) == IF s[2] \in DOMAIN machines THEN machines[s[2]] ELSE ZeroMachine

getShared(m) ==
  SortByID(SeqOfRows({SharedMachineOf(s) : s \in {t \in shared : t[1] = m.NamespaceID}}))

RECURSIVE RostersOf(_)
RostersOf(nss) ==
  IF nss = {} THEN <<>>
  ELSE LET n == CHOOSE x \in nss : \A y \in nss : x <= y
       IN ListMachinesInNamespace(n) \o RostersOf(nss \ {n})

getSharedTo(m) == SortByID(RostersOf({s[1] : s \in {t \in shared : t[2] = m.ID}}))

getPeers(m) == SortByID((getDirectPeers(m) \o getShared(m)) \o getSharedTo(m))

IDsOf(ms) == [i \in 1..Len(ms) |-> ms[i].ID]

(***************************************************************************)
(* What the last call did: the operation, the machine it was about, its    *)
(* arguments, the error it returned ("" is nil), the machine's row before  *)
(* the call (Machine{} if it had none), the caller's Machine struct after  *)
(* it, the namespaces it called RequestMapUpdates for, and its result.     *)
(***************************************************************************)
RowOf(id) == IF id \in DOMAIN machines THEN machines[id] ELSE ZeroMachine

Ret(op, id, args, err, mem, sig, out) ==
  [op |-> op, id |-> id, args |-> args, err |-> err, pre |-> RowOf(id),
   mem |-> mem, sig |-> sig, out |-> out]

NoRet == [op |-> "", id |-> 0, args |-> <<>>, err |-> "", pre |-> ZeroMachine,
          mem |-> ZeroMachine, sig |-> <<>>, out |-> ""]

\* The outcomes of the calls into the store and the notifier that a handler checks.
Faults == {"", "shares", "db", "notify"}

(***************************************************************************)
(* Machine registry.                                                       *)
(***************************************************************************)
\* RegisterMachine without the isAlreadyRegistered return.
RegisterMachineAgain(key, namespace) ==
  /\ GetNamespaceOK(namespace) /\ ParseHexOK(key)
  /\ \E x \in Rows : x.MachineKey = HexString(ParseHex(key))
  /\ getAvailableIPOK
  /\ LET m == CHOOSE x \in Rows : x.MachineKey = HexString(ParseHex(key))
         r == [m EXCEPT !.IPAddress = getAvailableIP, !.NamespaceID = namespace,
                        !.Registered = TRUE, !.RegisterMethod = "cli"]
     IN /\ machines' = Save(r)
        /\ ret' = Ret("RegisterMachine", m.ID, <<key, namespace>>,
                      IF m.Registered THEN "AlreadyRegistered" ELSE "", r, <<>>, "")
  /\ UNCHANGED <<shared, now, cfg, lastStateChange, pc>>

RegisterMachine(key, namespace) ==
  /\ IF ~GetNamespaceOK(namespace)
       THEN /\ ret' = Ret("RegisterMachine", 0, <<key, namespace>>,
                          "NamespaceNotFound", ZeroMachine, <<>>, "")
            /\ UNCHANGED machines
     ELSE IF ~ParseHexOK(key)
       THEN /\ ret' = Ret("RegisterMachine", 0, <<key, namespace>>,
                          "InvalidKey", ZeroMachine, <<>>, "")
            /\ UNCHANGED machines
     ELSE IF ~\E x \in Rows : x.MachineKey = HexString(ParseHex(key))
       THEN /\ ret' = Ret("RegisterMachine", 0, <<key, namespace>>,
                          "MachineNotFound", ZeroMachine, <<>>, "")
            /\ UNCHANGED machines
     ELSE LET m == CHOOSE x \in Rows : x.MachineKey = HexString(ParseHex(key))
              r == [m EXCEPT !.IPAddress = getAvailableIP,
                             !.NamespaceID = namespace,
                             !.Registered = TRUE, !.RegisterMethod = "cli"]
          IN IF m.Registered
               THEN /\ ret' = Ret("RegisterMachine", m.ID, <<key, namespace>>,
                                  "AlreadyRegistered", m, <<>>, "")
                    /\ UNCHANGED machines
             ELSE IF ~getAvailableIPOK
               THEN /\ ret' = Ret("RegisterMachine", m.ID, <<key, namespace>>,
                                  "NoAvailableIP", m, <<>>, "")
                    /\ UNCHANGED machines
             ELSE /\ machines' = Save(r)
                  /\ ret' = Ret("RegisterMachine", m.ID, <<key, namespace>>, "", r, <<>>, "")
  /\ UNCHANGED <<shared, now, cfg, lastStateChange, pc>>

\* DeleteMachine returning nil without the call to RequestMapUpdates.
DeleteMachineNoSignal(id, fault) ==
  /\ id \in DOMAIN machines
  /\ fault = ""
  /\ LET m == machines[id]
         u == [m EXCEPT !.Registered = FALSE]
     IN /\ shared' = RemoveSharedMachineFromAllNamespaces(id)
        /\ machines' = Delete(Save(u), id)
        /\ ret' = Ret("DeleteMachine", id, <<>>, "", u, <<>>, "")
  /\ UNCHANGED <<now, cfg, lastStateChange, pc>>

DeleteMachine(id, fault) ==
  /\ id \in DOMAIN machines
  /\ LET m == machines[id]
         u == [m EXCEPT !.Registered = FALSE]
         namespaceID == m.NamespaceID
     IN IF fault = "shares"
          THEN /\ ret' = Ret("DeleteMachine", id, <<>>, "StoreFailure", m, <<>>, "")
               /\ UNCHANGED <<machines, shared>>
        ELSE /\ shared' = RemoveSharedMachineFromAllNamespaces(id)
             /\ IF fault = "db"
                  THEN /\ machines' = Save(u)
                       /\ ret' = Ret("DeleteMachine", id, <<>>, "StoreFailure", u, <<>>, "")
                ELSE /\ machines' = Delete(Save(u), id)
                     /\ IF RequestMapUpdatesOK(namespaceID, fault)
                          THEN /\ ret' = Ret("DeleteMachine", id, <<>>, "", u, <<namespaceID>>, "")
                        ELSE /\ ret' = Ret("DeleteMachine", id, <<>>,
                                           "NotifyFailure", u, <<namespaceID>>, "")
  /\ UNCHANGED <<now, cfg, lastStateChange, pc>>

HardDeleteMachine(id, fault) ==
  /\ id \in DOMAIN machines
  /\ LET m == machines[id]
         namespaceID == m.NamespaceID
     IN IF fault = "shares"
          THEN /\ ret' = Ret("HardDeleteMachine", id, <<>>, "StoreFailure", m, <<>>, "")
               /\ UNCHANGED <<machines, shared>>
        ELSE /\ shared' = RemoveSharedMachineFromAllNamespaces(id)
             /\ IF fault = "db"
                  THEN /\ ret' = Ret("HardDeleteMachine", id, <<>>,
                                     "StoreFailure", m, <<>>, "")
                       /\ UNCHANGED machines
                ELSE /\ machines' = Delete(machines, id)
                     /\ IF RequestMapUpdatesOK(namespaceID, fault)
                          THEN /\ ret' = Ret("HardDeleteMachine", id, <<>>, "", m, <<namespaceID>>, "")
                        ELSE /\ ret' = Ret("HardDeleteMachine", id, <<>>,
                                           "NotifyFailure", m, <<namespaceID>>, "")
  /\ UNCHANGED <<now, cfg, lastStateChange, pc>>

(***************************************************************************)
(* Peer resolution and staleness, as calls.                                *)
(***************************************************************************)
getDirectPeersCall(id) ==
  /\ id \in DOMAIN machines
  /\ ret' = Ret("getDirectPeers", id, <<>>, "", machines[id], <<>>,
                IDsOf(getDirectPeers(machines[id])))
  /\ UNCHANGED <<machines, shared, now, cfg, lastStateChange, pc>>

getPeersCall(id) ==
  /\ id \in DOMAIN machines
  /\ ret' = Ret("getPeers", id, <<>>, "", machines[id], <<>>, IDsOf(getPeers(machines[id])))
  /\ UNCHANGED <<machines, shared, now, cfg, lastStateChange, pc>>

\* The caller holds the struct of machine id; its row may be gone by now.
isOutdated(id) ==
  /\ id \in MachineIDs
  /\ IF id \notin DOMAIN machines
       THEN ret' = Ret("isOutdated", id, <<>>, "", NewMachine(id), <<>>, "true")
     ELSE LET m == machines[id]
              sharedMachines == getShared(m)
              namespaceSet == {m.NamespaceID} \cup
                              {sharedMachines[i].NamespaceID : i \in 1..Len(sharedMachines)}
              lastChange == getLastStateChange(namespaceSet)
          IN IF m.LastSuccessfulUpdate = NilTime
               THEN ret' = Ret("isOutdated", id, <<lastChange>>, "", m, <<>>, "panic")
             ELSE ret' = Ret("isOutdated", id, <<lastChange>>, "", m, <<>>,
                             IF m.LastSuccessfulUpdate < lastChange
                               THEN "true" ELSE "false")
  /\ UNCHANGED <<machines, shared, now, cfg, lastStateChange, pc>>

(***************************************************************************)
(* Expiry policy.  time.Now() is read once by isExpired and once more by   *)
(* updateMachineExpiry; the clock may have advanced to t in between.       *)
(***************************************************************************)
Tick ==
  /\ now < MaxTime
  /\ now' = now + 1
  /\ UNCHANGED <<machines, shared, cfg, lastStateChange, ret, pc>>

\* isExpired with time.Now() not before the Expiry.
isExpiredOrExpiring(m) == now >= m.Expiry

isExpired(m) == now > m.Expiry

\* Lines 75-93: the expiry a machine gets when the clock reads t.
NewExpiry(m, t) ==
  LET maxExpiry == t + cfg.MaxMachineRegistrationDuration
      defaultExpiry == t + cfg.DefaultMachineRegistrationDuration
  IN IF maxExpiry < m.RequestedExpiry THEN maxExpiry
     ELSE IF m.RequestedExpiry = ZeroTime THEN defaultExpiry
     ELSE m.RequestedExpiry

updateMachineExpiry(id, t) ==
  /\ id \in DOMAIN machines
  /\ t \in now..MaxTime
  /\ LET m == machines[id]
     IN IF m.Expiry = NilTime
          THEN /\ t = now
               /\ ret' = Ret("updateMachineExpiry", id, <<now, t>>, "", m, <<>>, "panic")
               /\ UNCHANGED <<machines, now>>
        ELSE IF ~isExpired(m)
          THEN /\ t = now
               /\ ret' = Ret("updateMachineExpiry", id, <<now, t>>, "", m, <<>>, "noop")
               /\ UNCHANGED <<machines, now>>
        ELSE IF m.RequestedExpiry = NilTime
          THEN /\ now' = t
               /\ ret' = Ret("updateMachineExpiry", id, <<now, t>>, "", m, <<>>, "panic")
               /\ UNCHANGED machines
        ELSE LET u == [m EXCEPT !.Expiry = NewExpiry(m, t)]
             IN /\ now' = t
                /\ machines' = Save(u)
                /\ ret' = Ret("updateMachineExpiry", id, <<now, t>>, "", u, <<>>, "updated")
  /\ UNCHANGED <<shared, cfg, lastStateChange, pc>>

(***************************************************************************)
(* Route authority.                                                        *)
(***************************************************************************)
GetEnabledRoutes(m) ==
  [i \in 1..Len(m.EnabledRoutes) |-> ParseIPPrefix(m.EnabledRoutes[i])]

IsRoutesEnabled(m, routeStr) ==
  /\ ParseIPPrefixOK(routeStr)
  /\ \E i \in 1..Len(GetEnabledRoutes(m)) : GetEnabledRoutes(m)[i] = ParseIPPrefix(routeStr)

\* Lines 712-735: the error of the parse and the advertised-route checks, "" if none.
ValidateRoutes(m, routeStrs) ==
  IF \E i \in 1..Len(routeStrs) : ~ParseIPPrefixOK(routeStrs[i]) THEN "InvalidRoute"
  ELSE IF ~m.HostInfo.valid THEN "DecodeFailure"
  ELSE IF \E i \in 1..Len(routeStrs) :
            ParseIPPrefix(routeStrs[i]) \notin m.HostInfo.RoutableIPs
    THEN "RouteNotAdvertised"
  ELSE ""

\* Lines 737-742: json.Marshal of the parsed routes.
MarshalRoutes(routeStrs) ==
  [i \in 1..Len(routeStrs) |-> PrefixString(ParseIPPrefix(routeStrs[i]))]

\* The routes of the request that the machine advertises.
AdvertisedOf(m, routeStrs) ==
  SelectSeq(routeStrs, LAMBDA r : ParseIPPrefixOK(r)
                                  /\ ParseIPPrefix(r) \in m.HostInfo.RoutableIPs)

\* EnableRoutes that enables the advertised routes of a request it rejects.
EnableRoutesPartial(id, routeStrs, fault) ==
  /\ id \in DOMAIN machines
  /\ fault = ""
  /\ LET m == machines[id]
         err == ValidateRoutes(m, routeStrs)
         u == [m EXCEPT !.EnabledRoutes =
                 MarshalRoutes(IF err = "" THEN routeStrs ELSE AdvertisedOf(m, routeStrs))]
     IN /\ machines' = Save(u)
        /\ ret' = Ret("EnableRoutes", id, routeStrs, err, u, <<>>, "")
  /\ UNCHANGED <<shared, now, cfg, lastStateChange, pc>>

\* EnableRoutes that appends the new routes to the enabled ones.
EnableRoutesMerging(id, routeStrs, fault) ==
  /\ id \in DOMAIN machines
  /\ fault = ""
  /\ LET m == machines[id]
         err == ValidateRoutes(m, routeStrs)
         u == [m EXCEPT !.EnabledRoutes = @ \o MarshalRoutes(routeStrs)]
     IN IF err # ""
          THEN /\ ret' = Ret("EnableRoutes", id, routeStrs, err, m, <<>>, "")
               /\ UNCHANGED machines
        ELSE /\ machines' = Save(u)
             /\ ret' = Ret("EnableRoutes", id, routeStrs, "", u, <<>>, "")
  /\ UNCHANGED <<shared, now, cfg, lastStateChange, pc>>

EnableRoutes(id, routeStrs, fault) ==
  /\ id \in DOMAIN machines
  /\ fault \in {"", "notify"}
  /\ LET m == machines[id]
         err == ValidateRoutes(m, routeStrs)
         u == [m EXCEPT !.EnabledRoutes = MarshalRoutes(routeStrs)]
     IN IF err # ""
          THEN /\ fault = ""
               /\ ret' = Ret("EnableRoutes", id, routeStrs, err, m, <<>>, "")
               /\ UNCHANGED machines
        ELSE /\ machines' = Save(u)
             /\ IF RequestMapUpdatesOK(m.NamespaceID, fault)
                  THEN /\ ret' = Ret("EnableRoutes", id, routeStrs, "", u, <<m.NamespaceID>>, "")
                ELSE /\ ret' = Ret("EnableRoutes", id, routeStrs, "NotifyFailure", u, <<m.NamespaceID>>, "")
  /\ UNCHANGED <<shared, now, cfg, lastStateChange, pc>>

(***************************************************************************)
(* Two EnableRoutes calls in flight: each caller loads the machine, runs   *)
(* lines 712-742 on its own struct, writes it with h.db.Save and then      *)
(* signals the notifier.  The store write is the only shared step.         *)
(***************************************************************************)
Callers == {1, 2}

Idle == [at |-> "idle", m |-> ZeroMachine, args |-> <<>>, err |-> ""]

EnableRoutesLoad(c, id, routeStrs) ==
  /\ pc[c].at = "idle"
  /\ id \in DOMAIN machines
  /\ LET m == machines[id]
         err == ValidateRoutes(m, routeStrs)
     IN pc' = [pc EXCEPT ![c] =
                 IF err # ""
                   THEN [at |-> "done", m |-> m, args |-> routeStrs, err |-> err]
                 ELSE [at |-> "save",
                       m |-> [m EXCEPT !.EnabledRoutes = MarshalRoutes(routeStrs)],
                       args |-> routeStrs, err |-> ""]]
  /\ UNCHANGED <<machines, shared, now, cfg, lastStateChange, ret>>

\* A write that adds the caller's routes to the stored ones.
EnableRoutesSaveMerging(c) ==
  /\ pc[c].at = "save"
  /\ machines' = Save([pc[c].m EXCEPT !.EnabledRoutes =
                         machines[pc[c].m.ID].EnabledRoutes \o pc[c].m.EnabledRoutes])
  /\ ret' = Ret("EnableRoutes.Save", pc[c].m.ID, pc[c].args, "", pc[c].m, <<>>, "")
  /\ pc' = [pc EXCEPT ![c].at = "notify"]
  /\ UNCHANGED <<shared, now, cfg, lastStateChange>>

EnableRoutesSave(c) ==
  /\ pc[c].at = "save"
  /\ machines' = Save(pc[c].m)
  /\ ret' = Ret("EnableRoutes.Save", pc[c].m.ID, pc[c].args, "", pc[c].m, <<>>, "")
  /\ pc' = [pc EXCEPT ![c].at = "notify"]
  /\ UNCHANGED <<shared, now, cfg, lastStateChange>>

EnableRoutesNotify(c, fault) ==
  /\ pc[c].at = "notify"
  /\ fault \in {"", "notify"}
  /\ IF RequestMapUpdatesOK(pc[c].m.NamespaceID, fault)
       THEN /\ pc' = [pc EXCEPT ![c].at = "done"]
     ELSE /\ pc' = [pc EXCEPT ![c].at = "done", ![c].err = "NotifyFailure"]
  /\ UNCHANGED <<machines, shared, now, cfg, lastStateChange, ret>>

(***************************************************************************)
(* Specifications.                                                         *)
(***************************************************************************)
\* The stores the specifications start from: every machine is unknown, known
\* but not registered, or registered in some namespace.
Populations ==
  {f \in [MachineIDs -> 0..(NumNamespaces + 1)] : TRUE}

StoreOf(f) ==
  [i \in {j \in MachineIDs : f[j] # NumNamespaces + 1} |->
     IF f[i] = 0 THEN NewMachine(i) ELSE RegisteredMachine(i, f[i], i)]

\* A share grants a machine of one namespace to another namespace.
SharesOf(store) ==
  {s \in NamespaceIDs \X DOMAIN store :
     store[s[2]].NamespaceID # 0 /\ store[s[2]].NamespaceID # s[1]}

InitCommon ==
  /\ now = 1
  /\ cfg = [MaxMachineRegistrationDuration |-> MaxDuration,
            DefaultMachineRegistrationDuration |-> 1]
  /\ lastStateChange = [n \in NamespaceIDs |-> 1]
  /\ ret = NoRet
  /\ pc = [c \in Callers |-> Idle]

\* Registry, route authority and notifier: a store of two machine keys, each
\* unknown, known but not registered, or registered in some namespace.
Init ==
  /\ InitCommon
  /\ \E f \in Populations :
       /\ \A i \in MachineIDs \ {1, 2} : f[i] = NumNamespaces + 1
       /\ machines = StoreOf(f)
  /\ shared = {}

Next ==
  \/ \E key \in KeyStrs, namespace \in 1..(NumNamespaces + 1) :
       RegisterMachine(key, namespace)
  \/ \E id \in MachineIDs, fault \in Faults : DeleteMachine(id, fault)
  \/ \E id \in MachineIDs, fault \in Faults : HardDeleteMachine(id, fault)
  \/ \E id \in MachineIDs, r \in {"10.0.0.0/24", "10.1.0.0/16"}, fault \in Faults :
       EnableRoutes(id, <<r>>, fault)

Spec == Init /\ [][Next]_vars

\* Route authority alone: the store holds a registered machine that has no
\* routes enabled yet and one whose host metadata does not decode.
InitRoutes ==
  /\ InitCommon
  /\ machines = [i \in {1, 2} |->
                   IF i = 1 THEN RegisteredMachine(1, 1, 1)
                   ELSE [RegisteredMachine(2, 1, 2) EXCEPT
                           !.HostInfo = [valid |-> FALSE, RoutableIPs |-> {}]]]
  /\ shared = {}

NextRoutes ==
  \E id \in MachineIDs, routeStrs \in RouteArgs, fault \in Faults :
    EnableRoutes(id, routeStrs, fault)

SpecRoutes == InitRoutes /\ [][NextRoutes]_vars

\* Peer resolver over a registry that machines leave: any population, any shares.
InitPeers ==
  /\ InitCommon
  /\ \E f \in Populations :
       /\ machines = StoreOf(f)
       /\ shared \in SUBSET SharesOf(StoreOf(f))

NextPeers ==
  \/ \E id \in MachineIDs, fault \in Faults : DeleteMachine(id, fault)
  \/ \E id \in MachineIDs : getDirectPeersCall(id)
  \/ \E id \in MachineIDs : getPeersCall(id)

SpecPeers == InitPeers /\ [][NextPeers]_vars

\* Staleness detector: registered machines, the first with any record of its
\* last successful update, any shares, any change times of the tenants.
InitStale ==
  /\ now = 1
  /\ cfg = [MaxMachineRegistrationDuration |-> MaxDuration,
            DefaultMachineRegistrationDuration |-> 1]
  /\ ret = NoRet
  /\ pc = [c \in Callers |-> Idle]
  /\ lastStateChange \in [NamespaceIDs -> 1..MaxTime]
  /\ \E f \in [MachineIDs -> NamespaceIDs], lsu \in {NilTime} \cup 1..MaxTime :
       /\ machines = [StoreOf(f) EXCEPT ![1].LastSuccessfulUpdate = lsu]
       /\ shared \in SUBSET SharesOf(StoreOf(f))

NextStale ==
  \/ \E id \in MachineIDs : isOutdated(id)
  \/ \E id \in MachineIDs, fault \in Faults : HardDeleteMachine(id, fault)
  \/ Tick

SpecStale == InitStale /\ [][NextStale]_vars

\* Expiry policy: any configured durations, the first machine with any expiry
\* and any requested expiry.
InitExpiry ==
  /\ now = 1
  /\ cfg \in [MaxMachineRegistrationDuration : 1..MaxDuration,
              DefaultMachineRegistrationDuration : 1..MaxDuration]
  /\ lastStateChange = [n \in NamespaceIDs |-> 1]
  /\ ret = NoRet
  /\ pc = [c \in Callers |-> Idle]
  /\ shared = {}
  /\ \E e \in {NilTime} \cup 1..MaxTime,
        r \in {NilTime, ZeroTime} \cup 1..(MaxTime + MaxDuration + 1) :
       machines = [StoreOf([i \in MachineIDs |-> 1])
                     EXCEPT ![1].Expiry = e, ![1].RequestedExpiry = r]

NextExpiry ==
  \/ \E id \in MachineIDs, t \in 1..MaxTime : updateMachineExpiry(id, t)
  \/ Tick

SpecExpiry == InitExpiry /\ [][NextExpiry]_vars

\* Concurrent EnableRoutes calls: registered machines, the first with or
\* without a route enabled before the calls.
InitConc ==
  /\ InitCommon
  /\ shared = {}
  /\ \E pre \in {<<>>, <<"10.0.0.0/24">>} :
       machines = [StoreOf([i \in MachineIDs |-> 1]) EXCEPT ![1].EnabledRoutes = pre]

NextConc ==
  \/ \E c \in Callers, id \in MachineIDs, routeStrs \in RouteArgs :
       EnableRoutesLoad(c, id, routeStrs)
  \/ \E c \in Callers : EnableRoutesSave(c)
  \/ \E c \in Callers, fault \in Faults : EnableRoutesNotify(c, fault)

SpecConc == InitConc /\ [][NextConc]_vars

(***************************************************************************)
(* Properties of the registry, the route authority and the notifier.       *)
(***************************************************************************)
SeqRange(q) == {q[i] : i \in 1..Len(q)}

Mutating == {"RegisterMachine", "DeleteMachine", "HardDeleteMachine", "EnableRoutes"}

\* The tenant of the machine the last call was about.
TenantOfCall == IF ret.op = "RegisterMachine" THEN ret.mem.NamespaceID
                ELSE ret.pre.NamespaceID

\* C1 as stated: every successful RegisterMachine, DeleteMachine,
\* HardDeleteMachine and EnableRoutes has called RequestMapUpdates for the
\* tenant of its machine.
C1_EveryMutationSignals ==
  (ret.op \in Mutating /\ ret.err = "") =>
    (TenantOfCall \in SeqRange(ret.sig))

\* C1 as amended: every successful DeleteMachine, HardDeleteMachine and
\* EnableRoutes has called RequestMapUpdates for the tenant of its machine; a
\* successful RegisterMachine has made no call to RequestMapUpdates.
C1_DeleteAndRoutesSignal ==
  /\ (ret.op \in Mutating \ {"RegisterMachine"} /\ ret.err = "") =>
       (TenantOfCall \in SeqRange(ret.sig))
  /\ (ret.op = "RegisterMachine" /\ ret.err = "") => ret.sig = <<>>

\* A soft delete of a registered machine has succeeded.
C1_Witness ==
  /\ ret.op = "DeleteMachine" /\ ret.err = ""
  /\ ret.pre.Registered /\ ret.id \notin DOMAIN machines
  /\ ret.sig = <<ret.pre.NamespaceID>>

\* C9: a RegisterMachine call with a known namespace and a well-formed key
\* returns the already-registered error when the key's record is registered
\* and the not-found error when the key has no record, and in both cases
\* every row of the store is as it was before the call and no row was added.
C9_Step ==
  ret'.op = "RegisterMachine" /\ GetNamespaceOK(ret'.args[2])
                              /\ ParseHexOK(ret'.args[1]) =>
    LET k == HexString(ParseHex(ret'.args[1]))
        found == {x \in Rows : x.MachineKey = k}
    IN /\ (\E x \in found : x.Registered) =>
            (ret'.err = "AlreadyRegistered" /\ machines' = machines)
       /\ found = {} => (ret'.err = "MachineNotFound" /\ machines' = machines)

C9_ReRegistrationRejected == [][C9_Step]_vars

\* A registered machine was offered for registration in another namespace
\* while an address was free, and was rejected.
C9_Witness ==
  /\ ret.op = "RegisterMachine" /\ ret.err = "AlreadyRegistered"
  /\ ret.pre.Registered /\ ret.args[2] # ret.pre.NamespaceID
  /\ getAvailableIPOK
  /\ machines[ret.id] = ret.pre

(***************************************************************************)
(* Properties of EnableRoutes.                                             *)
(***************************************************************************)
\* The routes a request names, as prefixes; a malformed string names none.
Requested(routeStrs) ==
  {ParseIPPrefix(routeStrs[i]) : i \in {j \in 1..Len(routeStrs) : ParseIPPrefixOK(routeStrs[j])}}

\* Some requested route is not among the routes the machine advertised.
SomeNotAdvertised(m, routeStrs) ==
  \E i \in 1..Len(routeStrs) :
    ~(ParseIPPrefixOK(routeStrs[i])
      /\ m.HostInfo.valid /\ ParseIPPrefix(routeStrs[i]) \in m.HostInfo.RoutableIPs)

\* C3: when some requested route is not advertised by the machine, EnableRoutes
\* returns an error, and the machine's row in the store and the caller's
\* struct are what the row was before the call.
C3_AllOrNothing ==
  (ret.op = "EnableRoutes" /\ SomeNotAdvertised(ret.pre, ret.args)) =>
    /\ ret.err \in {"InvalidRoute", "DecodeFailure", "RouteNotAdvertised"}
    /\ machines[ret.id] = ret.pre
    /\ ret.mem = ret.pre
    /\ ret.sig = <<>>

\* A request naming one advertised and one unadvertised route was rejected
\* on a machine that had routes enabled.
C3_Witness ==
  /\ ret.op = "EnableRoutes" /\ ret.err = "RouteNotAdvertised"
  /\ Requested(ret.args) \cap ret.pre.HostInfo.RoutableIPs # {}
  /\ ret.pre.EnabledRoutes # <<>>
  /\ machines[ret.id].EnabledRoutes = ret.pre.EnabledRoutes

\* The enabled routes of the machine of the last call are exactly the requested ones.
EnabledIsRequested ==
  /\ SeqRange(GetEnabledRoutes(machines[ret.id])) = Requested(ret.args)
  /\ Len(machines[ret.id].EnabledRoutes) = Len(ret.args)
  /\ \A r \in RouteStrs :
       IsRoutesEnabled(machines[ret.id], r) <=>
         (ParseIPPrefixOK(r) /\ ParseIPPrefix(r) \in Requested(ret.args))

\* C4 as stated: the enabled routes are those of the most recent successful
\* call, that is, a call that returned nil leaves exactly its arguments
\* enabled and a call that returned an error leaves the enabled routes as
\* they were.
C4_LastSuccessfulCall ==
  ret.op = "EnableRoutes" =>
    IF ret.err = "" THEN EnabledIsRequested
    ELSE machines[ret.id].EnabledRoutes = ret.pre.EnabledRoutes

\* C4 as amended: the enabled routes are those of the most recent call that
\* passed the parse and advertised-route checks, whether RequestMapUpdates
\* then failed or not: such a call leaves exactly its arguments enabled, and
\* a call rejected by the checks leaves the enabled routes as they were.
C4_Replaces ==
  ret.op = "EnableRoutes" =>
    IF ret.err \in {"", "NotifyFailure"} THEN EnabledIsRequested
    ELSE machines[ret.id].EnabledRoutes = ret.pre.EnabledRoutes

\* Route A was enabled, then route B was requested alone and succeeded.
C4_Witness ==
  /\ ret.op = "EnableRoutes" /\ ret.err = ""
  /\ ret.pre.EnabledRoutes = <<"10.0.0.0/24">>
  /\ ret.args = <<"fd00:0::/64">>
  /\ ~IsRoutesEnabled(machines[ret.id], "10.0.0.0/24")
  /\ IsRoutesEnabled(machines[ret.id], "fd00::/64")

(***************************************************************************)
(* Properties of the peer resolver.                                        *)
(***************************************************************************)
\* C2 as stated: for every machine, the IDs of getPeers are strictly ascending.
C2_StrictlyAscending ==
  \A m \in Rows :
    \A i \in 1..(Len(getPeers(m)) - 1) : getPeers(m)[i].ID < getPeers(m)[i + 1].ID

\* C8: two distinct registered machines of one tenant are each among the
\* direct peers of the other; every direct peer of a machine is registered,
\* is in the machine's tenant and is not the machine itself.
C8_DirectPeers ==
  \A m1 \in Rows :
    /\ \A m2 \in Rows :
         (m1.ID # m2.ID /\ m1.NamespaceID = m2.NamespaceID
          /\ m1.Registered /\ m2.Registered) =>
           (m2 \in SeqRange(getDirectPeers(m1)) /\ m1 \in SeqRange(getDirectPeers(m2)))
    /\ \A x \in SeqRange(getDirectPeers(m1)) :
         x.Registered /\ x.ID # m1.ID /\ x.NamespaceID = m1.NamespaceID

\* getDirectPeers was called on a registered machine with a registered machine
\* in its tenant, and returned it.
C8_Witness ==
  /\ ret.op = "getDirectPeers" /\ ret.out # <<>>
  /\ ret.id \in DOMAIN machines /\ machines[ret.id].Registered
  /\ \E x \in Rows : x.ID # ret.id /\ x.Registered
                     /\ x.NamespaceID = machines[ret.id].NamespaceID
                     /\ ret.out = <<x.ID>>

(***************************************************************************)
(* Properties of the staleness detector and the expiry policy.             *)
(***************************************************************************)
\* The most recent change over the tenant of m and the tenants of the
\* machines shared into the tenant of m.
LastChangeVisibleTo(m) ==
  LET tenants == {m.NamespaceID} \cup
                 {machines[s[2]].NamespaceID :
                    s \in {t \in shared : t[1] = m.NamespaceID /\ t[2] \in DOMAIN machines}}
      times == {lastStateChange[n] : n \in tenants}
  IN CHOOSE t \in times : \A u \in times : u <= t

\* C5 as stated: isOutdated returns, and returns true exactly when the machine
\* has no recorded last successful update or that update is strictly before
\* the most recent change visible to it.
C5_StaleIff ==
  (ret.op = "isOutdated" /\ ret.id \in DOMAIN machines) =>
    LET m == machines[ret.id]
    IN /\ ret.out \in {"true", "false"}
       /\ ret.out = "true" <=>
            (m.LastSuccessfulUpdate = NilTime
             \/ m.LastSuccessfulUpdate < LastChangeVisibleTo(m))

\* C6 as stated: after updateMachineExpiry on an expired machine, Expiry is
\* not later than the clamp time plus MaxMachineRegistrationDuration.
C6_NeverBeyondMax ==
  (ret.op = "updateMachineExpiry" /\ ret.pre.Expiry # NilTime
   /\ ret.args[1] > ret.pre.Expiry) =>
    machines[ret.id].Expiry <= ret.args[2] + cfg.MaxMachineRegistrationDuration

\* C7: a call of updateMachineExpiry on a machine whose Expiry is set and not
\* before the current time changes no row of the store and no field of the
\* caller's struct.
C7_Step ==
  (/\ ret'.op = "updateMachineExpiry"
   /\ ret'.id \in DOMAIN machines
   /\ machines[ret'.id].Expiry # NilTime
   /\ ~(now > machines[ret'.id].Expiry)) =>
    /\ machines' = machines
    /\ ret' # ret => (ret'.mem = machines[ret'.id] /\ ret'.out = "noop")

C7_NoOpUnlessExpired == [][C7_Step]_vars

\* updateMachineExpiry was called at the very instant of the machine's Expiry,
\* with a different expiry requested, and changed nothing.
C7_Witness ==
  /\ ret.op = "updateMachineExpiry" /\ ret.out = "noop"
  /\ ret.args[1] = ret.pre.Expiry
  /\ ret.pre.RequestedExpiry \notin {NilTime, ZeroTime, ret.pre.Expiry}
  /\ machines[ret.id] = ret.pre

(***************************************************************************)
(* Properties of concurrent EnableRoutes calls.                            *)
(***************************************************************************)
\* Every caller has returned, all calls were about one machine and passed
\* the parse and advertised-route checks.
AllWroteOneMachine ==
  /\ \A c \in Callers : pc[c].at = "done" /\ pc[c].err \in {"", "NotifyFailure"}
  /\ \A c, d \in Callers : pc[c].m.ID = pc[d].m.ID

\* C10: when the concurrent calls on one machine have all returned, the
\* stored routes are the complete request of the call that wrote last, which
\* is the request of one of the calls, in the order and number it gave.
C10_LastWriteWins ==
  AllWroteOneMachine =>
    /\ ret.op = "EnableRoutes.Save"
    /\ \E c \in Callers : pc[c].args = ret.args /\ machines[ret.id] = pc[c].m
    /\ \A i \in 1..Len(ret.args) :
         machines[ret.id].EnabledRoutes[i] = PrefixString(ParseIPPrefix(ret.args[i]))
    /\ Len(machines[ret.id].EnabledRoutes) = Len(ret.args)

\* Two calls with different non-empty requests, neither the route enabled
\* before, have both written, and the routes of the first writer are gone.
C10_Witness ==
  /\ AllWroteOneMachine
  /\ pc[1].args = <<"fd00::/64">>
  /\ pc[2].args = <<"fd00::/64", "10.0.0.0/24">>
  /\ ret.args = pc[1].args
  /\ ret.pre.EnabledRoutes = MarshalRoutes(pc[2].args)
  /\ machines[ret.id].EnabledRoutes = <<"fd00::/64">>

====
